---- MODULE Spec2Model ----
(***************************************************************************)
(* Storage and lifecycle engine of gisty: the key generation service, the  *)
(* three storage tiers (cache, metadata index, blob store), the paste      *)
(* service (create / read / delete with detached purges) and the cleanup   *)
(* worker.  Every store call is one atomic step; a request handler is a    *)
(* sequence of such steps, so concurrent handlers interleave between store *)
(* calls.  The clock counts minutes.                                       *)
(***************************************************************************)
EXTENDS Integers, Sequences, FiniteSets, TLC

\* ------------------------------------------------------------------ bounds
NumProcs == 2
NumKeys == 2
MaxTime == 1
MaxFaults == 1
MaxOps == 3
MaxOpsF == 3
MaxOpsLive == 3
MaxOpsReap == 2
MaxOpsReapF == 2
NumStops == 2
MaxOpsKgs == 1
MaxOpsRepl == 2
MaxOpsLost == 2
MaxOpsValid == 2
LenSlack == 1
MaxStrLen == 11
LimbSlack == 1
MinKeysThreshold == 1
KgsBatchSize == 1
MaxGenCount == 2
MaxPurges == 2
BatchSize == 1

\* --------------------------------------------------------- program constants
DefaultCacheTTL == 60
MaxContentSize == 1048576
base == 62

Procs == 1..NumProcs
KeySpace == 1..NumKeys
Contents == 1..(MaxOps + MaxOpsF + MaxOpsLive)
PurgeSlots == 1..MaxPurges

VARIABLES now, faults, keys, meta, blob, cache, proc, purges, reaper, kgs,
          handedOut, puts, created, touched, purged, burnReads, opsLeft, last,
          worker

vars == <<now, faults, keys, meta, blob, cache, proc, purges, reaper, kgs,
          handedOut, puts, created, touched, purged, burnReads, opsLeft, last,
          worker>>
stores == <<keys, meta, blob, cache>>
hist == <<handedOut, puts, created, touched, purged, burnReads>>

\* ------------------------------------------------------------ pure helpers
Min(a, b) == IF a < b THEN a ELSE b

\* gzip round trip of the blob store adapter; the empty tuple is "no object"
compressContent(c) == <<"gz", c>>
decompressContentEmpty(z) == 0
decompressContent(z) == z[2]
NoBlob == <<>>

\* time.ParseDuration on the duration expressions the model feeds in (minutes)
GoDurations == {"0s", "1m", "2m", "-1m", "2h30m"}
ParseDuration(s) ==
  CASE s = "0s" -> 0
    [] s = "1m" -> 1
    [] s = "2m" -> 2
    [] s = "-1m" -> 0 - 1
    [] s = "2h30m" -> 150
    [] OTHER -> 0

\* strings that neither the token table nor time.ParseDuration accepts
Malformed == {"abc", "10", "1x", "1D", "1y", "1 h", "Never", "BURN"}
FixedTokens == {"10m", "30m", "1h", "6h", "12h", "1d", "3d", "1w", "2w", "1M"}
ExpiresInStrings == {"", "never", "burn"} \cup FixedTokens \cup GoDurations \cup Malformed

\* parseExpiration: (ok, has_expiry, duration in minutes, burn)
ExpResult(ok, has, d, burn) == [ok |-> ok, has_expiry |-> has, duration |-> d, burn |-> burn]
parseExpirationLenient(expiresIn) ==
  IF expiresIn = "burn" THEN ExpResult(TRUE, FALSE, 0, TRUE)
  ELSE ExpResult(TRUE, FALSE, 0, FALSE)
parseExpiration(expiresIn) ==
  IF expiresIn = "" \/ expiresIn = "never" THEN ExpResult(TRUE, FALSE, 0, FALSE)
  ELSE IF expiresIn = "burn" THEN ExpResult(TRUE, FALSE, 0, TRUE)
  ELSE CASE expiresIn = "10m" -> ExpResult(TRUE, TRUE, 10, FALSE)
         [] expiresIn = "30m" -> ExpResult(TRUE, TRUE, 30, FALSE)
         [] expiresIn = "1h" -> ExpResult(TRUE, TRUE, 60, FALSE)
         [] expiresIn = "6h" -> ExpResult(TRUE, TRUE, 6 * 60, FALSE)
         [] expiresIn = "12h" -> ExpResult(TRUE, TRUE, 12 * 60, FALSE)
         [] expiresIn = "1d" -> ExpResult(TRUE, TRUE, 24 * 60, FALSE)
         [] expiresIn = "3d" -> ExpResult(TRUE, TRUE, 3 * 24 * 60, FALSE)
         [] expiresIn = "1w" -> ExpResult(TRUE, TRUE, 7 * 24 * 60, FALSE)
         [] expiresIn = "2w" -> ExpResult(TRUE, TRUE, 14 * 24 * 60, FALSE)
         [] expiresIn = "1M" -> ExpResult(TRUE, TRUE, 30 * 24 * 60, FALSE)
         [] OTHER -> IF expiresIn \in GoDurations
                     THEN ExpResult(TRUE, TRUE, ParseDuration(expiresIn), FALSE)
                     ELSE ExpResult(FALSE, FALSE, 0, FALSE)

\* Paste.IsExpired against the clock value t
IsExpiredAtDeadline(p, t) == IF ~p.has_expiry THEN FALSE ELSE t >= p.expires_at
IsExpired(p, t) == IF ~p.has_expiry THEN FALSE ELSE t > p.expires_at

\* cache TTL chosen by CreatePaste and GetPaste before cache.Set
cacheTTLFor(has_expiry, expires_at, t) ==
  IF has_expiry /\ expires_at - t > 0 /\ expires_at - t < DefaultCacheTTL
  THEN expires_at - t ELSE DefaultCacheTTL

\* ------------------------------------------------------------ store values
NoPaste == [present |-> FALSE, has_expiry |-> FALSE, expires_at |-> 0,
            created_at |-> 0, burn |-> FALSE]
NoEntry == [present |-> FALSE, content |-> 0, exp |-> 0]

\* Cache.Set: a non-positive TTL falls back to the default.  The entry keeps
\* the instant it runs out, capped just past the horizon of the clock.
Horizon == MaxTime + 1
CacheSetSharedKey(c, s, content, ttl, t) ==
  [x \in KeySpace |-> [present |-> TRUE, content |-> content,
                       exp |-> Min(t + (IF ttl <= 0 THEN DefaultCacheTTL ELSE ttl), Horizon)]]
CacheSet(c, s, content, ttl, t) ==
  [c EXCEPT ![s] = [present |-> TRUE, content |-> content,
                    exp |-> Min(t + (IF ttl <= 0 THEN DefaultCacheTTL ELSE ttl), Horizon)]]
\* Cache.Delete
CacheDelete(c, s) == [c EXCEPT ![s] = NoEntry]
\* Storage.DeleteContent
DeleteContentNothing(b, s) == b
DeleteContent(b, s) == [b EXCEPT ![s] = NoBlob]
\* PasteRepository.Delete
RepoDeleteNothing(m, s) == m
RepoDelete(m, s) == [m EXCEPT ![s] = NoPaste]
\* PasteRepository.DeleteMany
RepoDeleteManyNothing(m, ids) == m
RepoDeleteMany(m, ids) == [s \in KeySpace |-> IF s \in ids THEN NoPaste ELSE m[s]]

\* outcomes of one store call: it succeeds, or (with faults on) it may fail
Outcomes == IF faults > 0 THEN {TRUE, FALSE} ELSE {TRUE}
\* the fault budget left after a call with outcome ok
Spend(ok) == IF ok THEN faults ELSE faults - 1

\* --------------------------------------------------------------- processes
\* (req is the CreatePasteRequest a running create was called with)
NoReq == [len |-> 0, syntax |-> "", expires_in |-> ""]
IdleProc == [pc |-> "idle", op |-> "none", id |-> 0, content |-> 0,
             has_expiry |-> FALSE, expires_at |-> 0, burn |-> FALSE, clean |-> FALSE,
             req |-> NoReq]
\* the most recent response handed to a caller
NoResp == [op |-> "none", id |-> 0, res |-> "none", content |-> 0, clean |-> FALSE]
FreePurge == [pc |-> "free", id |-> 0]
\* due remembers the records that were expired when the running cycle began
\* the KGS replenish worker: idle between checks, or inside GenerateKeys(count)
\* after i insert attempts of which `generated` added a key
\* (base remembers the size of the key collection when the call began)
IdleKgs == [pc |-> "idle", count |-> 0, i |-> 0, generated |-> 0, base |-> 0]
IdleReaper == [pc |-> "idle", batch |-> <<>>, i |-> 0, total |-> 0, due |-> {}]
\* NewCleanupWorker: both channels open, Start not yet called, no Stop call
\* under way; `closes` counts the close(w.doneCh) calls made, `late` tells
\* that the select took `case <-ticker.C` with a stop case ready
Stoppers == 1..NumStops
NewWorker == [start |-> "new", ctx |-> "live", stopCh |-> "open", doneCh |-> "open",
              closes |-> 0, late |-> FALSE, stop |-> [c \in Stoppers |-> "idle"]]
\* the worker as main leaves it: `go cleanupWorker.Start(cleanupCtx)`
RunningWorker == [NewWorker EXCEPT !.start = "running"]

\* empty stores, nothing running
InitIdle ==
  /\ meta = [s \in KeySpace |-> NoPaste]
  /\ blob = [s \in KeySpace |-> NoBlob]
  /\ cache = [s \in KeySpace |-> NoEntry]
  /\ proc = [p \in Procs |-> IdleProc]
  /\ purges = [q \in PurgeSlots |-> FreePurge]
  /\ reaper = IdleReaper
  /\ worker = RunningWorker
  /\ kgs = IdleKgs
  /\ handedOut = [k \in KeySpace |-> 0]
  /\ puts = [s \in KeySpace |-> [blob |-> 0, meta |-> 0]]
  /\ created = [s \in KeySpace |-> 0]
  /\ purged = [s \in KeySpace |-> FALSE]
  /\ touched = [s \in KeySpace |-> FALSE]
  /\ burnReads = [s \in KeySpace |-> 0]
InitCommon ==
  /\ now = 0
  /\ keys \in [KeySpace -> {"unused", "used"}]
  /\ InitIdle
  /\ last = NoResp

Init == InitCommon /\ faults = 0 /\ opsLeft = MaxOps
InitF == InitCommon /\ faults = MaxFaults /\ opsLeft = MaxOpsF
InitLive == InitCommon /\ faults = 0 /\ opsLeft = MaxOpsLive

\* A store that has been in use for a while when the cleanup worker runs: under
\* each short_id there is nothing, a paste without expiry, or a paste created
\* at minute 0 with expires_in "0s" whose expiry has passed; both kinds of
\* paste were cached by their create with the default TTL.
SeedKinds == {"none", "live", "expired"}
\* the same store as the key service sees it: a short_id that was never
\* generated, an unused key, a used key whose paste is gone, or a used key
\* with a paste
KgsSeedKinds == {"absent", "unused", "used", "live", "expired"}
SeedHasPaste(kind) == kind \in {"live", "expired"}
SeedKey(kind) ==
  CASE kind = "absent" -> "absent"
    [] kind \in {"none", "unused"} -> "unused"
    [] OTHER -> "used"
SeedContent(s) == MaxOps + MaxOpsF + MaxOpsLive + s
SeedPaste(kind) ==
  IF ~SeedHasPaste(kind) THEN NoPaste
  ELSE [present |-> TRUE, has_expiry |-> kind = "expired", expires_at |-> 0,
        created_at |-> 0, burn |-> FALSE]
SeedInit(seed) ==
  /\ now = MaxTime
  /\ keys = [s \in KeySpace |-> SeedKey(seed[s])]
  /\ meta = [s \in KeySpace |-> SeedPaste(seed[s])]
  /\ blob = [s \in KeySpace |->
               IF SeedHasPaste(seed[s]) THEN compressContent(SeedContent(s)) ELSE NoBlob]
  /\ cache = [s \in KeySpace |->
                IF SeedHasPaste(seed[s])
                THEN CacheSet([x \in KeySpace |-> NoEntry], s, SeedContent(s),
                              cacheTTLFor(seed[s] = "expired", 0, 0), 0)[s]
                ELSE NoEntry]
  /\ proc = [p \in Procs |-> IdleProc]
  /\ purges = [q \in PurgeSlots |-> FreePurge]
  /\ reaper = IdleReaper
  /\ kgs = IdleKgs
  /\ handedOut = [k \in KeySpace |-> IF SeedKey(seed[k]) = "used" THEN 1 ELSE 0]
  /\ puts = [s \in KeySpace |->
               IF SeedHasPaste(seed[s]) THEN [blob |-> 1, meta |-> 1]
               ELSE [blob |-> 0, meta |-> 0]]
  /\ created = [s \in KeySpace |-> IF SeedHasPaste(seed[s]) THEN SeedContent(s) ELSE 0]
  /\ purged = [s \in KeySpace |-> FALSE]
  /\ touched = [s \in KeySpace |-> FALSE]
  /\ burnReads = [s \in KeySpace |-> 0]
  /\ last = NoResp
InitReap ==
  \E seed \in [KeySpace -> SeedKinds] :
    SeedInit(seed) /\ worker = RunningWorker /\ faults = 0 /\ opsLeft = MaxOpsReap
InitKgs ==
  \E seed \in [KeySpace -> KgsSeedKinds] :
    SeedInit(seed) /\ worker = RunningWorker /\ faults = MaxFaults /\ opsLeft = MaxOpsKgs
InitReapF ==
  \E seed \in [KeySpace -> SeedKinds] :
    SeedInit(seed) /\ worker = RunningWorker /\ faults = MaxFaults /\ opsLeft = MaxOpsReapF
InitValid == InitCommon /\ faults = MaxFaults /\ opsLeft = MaxOpsValid
InitLost ==
  \E seed \in [KeySpace -> SeedKinds] :
    SeedInit(seed) /\ worker = RunningWorker /\ faults = 0 /\ opsLeft = MaxOpsLost
InitRepl ==
  \E seed \in [KeySpace -> KgsSeedKinds] :
    SeedInit(seed) /\ worker = RunningWorker /\ faults = 0 /\ opsLeft = MaxOpsRepl

\* ------------------------------------------------------------------ inputs
ExpiresInInputs == {"never", "burn", "0s"}

\* the call of handler p returns r (with content c, where it carries one)
Resp(p, r, c, clean) == [op |-> proc[p].op, id |-> proc[p].id, res |-> r,
                         content |-> c, clean |-> clean]
Done(p, r) ==
  /\ proc' = [proc EXCEPT ![p] = IdleProc]
  /\ last' = Resp(p, r, 0, FALSE)
Free(p) == proc[p].pc = "idle"

\* lowest free slot for a detached `go s.deletePaste(...)`
FreeSlots == {q \in PurgeSlots : purges[q].pc = "free"}
CanSpawn == FreeSlots # {}
\* the first store call of deletePaste is s.cache.Delete
FirstPurgeStageMeta == "meta"
FirstPurgeStage == "cache"
SpawnPurgeDropped(s) == purges
SpawnPurge(s) ==
  LET q == CHOOSE x \in FreeSlots : \A y \in FreeSlots : x <= y
  IN [purges EXCEPT ![q] = [pc |-> FirstPurgeStage, id |-> s]]

\* ------------------------------------------------------------- KGS
\* GetNextKey: FindOneAndUpdate({used:false}, {$set:{used:true}}) on key k
MarkUsedLost(ks, k) == ks
MarkUsedDropsKey(ks, k) == [ks EXCEPT ![k] = "absent"]
MarkUsed(ks, k) == [ks EXCEPT ![k] = "used"]
\* the filter {used: false} of that find-and-modify
UnusedKeysAnyKey == KeySpace
UnusedKeys == {k \in KeySpace : keys[k] = "unused"}

\* CountUnusedKeys / CountTotalKeys over the key collection ks
CountUnusedKeys(ks) == Cardinality({k \in KeySpace : ks[k] = "unused"})
CountTotalKeys(ks) == Cardinality({k \in KeySpace : ks[k] # "absent"})
\* InsertOne of a fresh key document under the unique index on key: a
\* duplicate is rejected and leaves the existing document as it is
IsDuplicateKey(ks, k) == ks[k] # "absent"
InsertKeyUpsert(ks, k) == [ks EXCEPT ![k] = "unused"]
InsertKey(ks, k) == IF IsDuplicateKey(ks, k) THEN ks ELSE [ks EXCEPT ![k] = "unused"]

\* `if unused < cfg.MinKeysThreshold`
BelowThresholdOrAt(unused) == unused <= MinKeysThreshold
BelowThreshold(unused) == unused < MinKeysThreshold

\* checkAndReplenish: count the unused keys; below the threshold it enters
\* GenerateKeys(BatchSize); a count error ends the check
KgsCheck ==
  /\ kgs.pc = "idle"
  /\ \E ok \in Outcomes :
       /\ faults' = Spend(ok)
       /\ kgs' = IF ok /\ BelowThreshold(CountUnusedKeys(keys)) /\ KgsBatchSize > 0
                 THEN [pc |-> "gen", count |-> KgsBatchSize, i |-> 0, generated |-> 0,
                       base |-> CountTotalKeys(keys)]
                 ELSE IdleKgs
  /\ UNCHANGED <<worker, now, stores, proc, purges, reaper, hist, opsLeft, last>>

\* GenerateKeys(n) called directly, as the setup code does, with any n
GenCounts == (0 - 1)..MaxGenCount
KgsGenerate ==
  /\ kgs.pc = "idle"
  /\ \E n \in GenCounts :
       kgs' = [pc |-> "gen", count |-> n, i |-> 0, generated |-> 0,
               base |-> CountTotalKeys(keys)]
  /\ UNCHANGED <<worker, now, faults, stores, proc, purges, reaper, hist, opsLeft, last>>

\* `maxAttempts := count * 3`
maxAttemptsFour(count) == count * 4
maxAttempts(count) == count * 3
\* the loop condition `i < maxAttempts && generated < count`
GenerateMore == kgs.i < maxAttempts(kgs.count) /\ kgs.generated < kgs.count

\* one round of the GenerateKeys loop: draw a random key and InsertOne it; a
\* duplicate is skipped, any other insert error ends the call
KgsInsert ==
  /\ kgs.pc = "gen"
  /\ GenerateMore
  /\ \E ok \in Outcomes :
       /\ faults' = Spend(ok)
       /\ IF ~ok
          THEN /\ kgs' = IdleKgs
               /\ UNCHANGED keys
          ELSE \E k \in KeySpace :
               /\ keys' = InsertKey(keys, k)
               /\ kgs' = [kgs EXCEPT !.i = @ + 1,
                                     !.generated = IF IsDuplicateKey(keys, k) THEN @ ELSE @ + 1]
  /\ UNCHANGED <<worker, now, meta, blob, cache, proc, purges, reaper, hist, opsLeft, last>>

\* the loop condition fails: GenerateKeys returns and the worker waits for
\* its next tick
KgsReturn ==
  /\ kgs.pc = "gen"
  /\ ~GenerateMore
  /\ kgs' = IdleKgs
  /\ UNCHANGED <<worker, now, faults, stores, proc, purges, reaper, hist, opsLeft, last>>

\* ------------------------------------------------------------- CreatePaste
\* strings.ToLower(strings.TrimSpace(req.SyntaxType)) on the inputs fed in
SyntaxInputs == {"", " Go ", "PYTHON", "klingon"}
NormalizeSyntax(t) ==
  CASE t = " Go " -> "go"
    [] t = "PYTHON" -> "python"
    [] OTHER -> t
ValidSyntaxTypes ==
  {"", "text", "plaintext", "markdown", "json", "xml", "html", "css",
   "javascript", "typescript", "python", "go", "golang", "java", "c", "cpp",
   "csharp", "ruby", "php", "rust", "swift", "kotlin", "scala", "sql", "bash",
   "shell", "powershell", "yaml", "toml", "ini", "dockerfile", "makefile",
   "nginx", "apache", "lua", "perl", "r", "matlab", "latex", "diff", "graphql",
   "protobuf", "haskell", "elixir", "erlang", "clojure", "lisp", "vim",
   "assembly"}
\* `len(req.Content) > MaxContentSize`
TooLargeAtLimit(len) == len >= MaxContentSize
TooLarge(len) == len > MaxContentSize
\* the checks CreatePaste makes before its first store call, in their order;
\* "nil" when the request passes
ValidateRequestNoSyntax(r) ==
  IF r.len = 0 THEN "EmptyContent"
  ELSE IF TooLarge(r.len) THEN "ContentTooLarge"
  ELSE IF ~parseExpiration(r.expires_in).ok THEN "InvalidExpiresIn"
  ELSE "nil"
ValidateRequest(r) ==
  IF r.len = 0 THEN "EmptyContent"
  ELSE IF TooLarge(r.len) THEN "ContentTooLarge"
  ELSE IF NormalizeSyntax(r.syntax) \notin ValidSyntaxTypes THEN "InvalidSyntaxType"
  ELSE IF ~parseExpiration(r.expires_in).ok THEN "InvalidExpiresIn"
  ELSE "nil"

\* validation and parseExpiration
CreateBeginOn(p, Reqs) ==
  /\ Free(p)
  /\ opsLeft > 0
  /\ opsLeft' = opsLeft - 1
  /\ \E r \in Reqs :
       LET err == ValidateRequest(r)
           x == parseExpiration(r.expires_in)
           c == opsLeft
       IN IF err # "nil"
          THEN /\ last' = [op |-> "create", id |-> 0, res |-> err, content |-> 0,
                           clean |-> FALSE, req |-> r]
               /\ UNCHANGED proc
          ELSE /\ proc' = [proc EXCEPT ![p] =
                    [IdleProc EXCEPT !.pc = "c_kgs", !.op = "create", !.content = c,
                                     !.has_expiry = x.has_expiry,
                                     !.expires_at = IF x.has_expiry THEN now + x.duration ELSE 0,
                                     !.burn = x.burn, !.req = r]]
               /\ UNCHANGED last
  /\ UNCHANGED <<worker, kgs, now, faults, stores, purges, reaper, hist>>
\* a request that passes validation, with any of the expirations
PlainRequests == {[len |-> 1, syntax |-> "", expires_in |-> e] : e \in ExpiresInInputs}
CreateBegin(p) == CreateBeginOn(p, PlainRequests)
\* any request: empty, boundary-sized and oversized content, listed and
\* unlisted syntax types, well-formed and malformed expirations
ContentLengths ==
  (0..LenSlack) \cup ((MaxContentSize - LenSlack)..(MaxContentSize + LenSlack))
AllRequests ==
  [len : ContentLengths, syntax : SyntaxInputs, expires_in : ExpiresInInputs \cup {"abc"}]
CreateAnyRequest(p) == CreateBeginOn(p, AllRequests)

\* s.kgs.GetNextKey
CreateGetKey(p) ==
  /\ proc[p].pc = "c_kgs"
  /\ \E ok \in Outcomes :
       /\ faults' = Spend(ok)
       /\ IF ~ok
          THEN /\ Done(p, "error")
               /\ UNCHANGED <<keys, handedOut>>
          ELSE IF UnusedKeys = {}
          THEN /\ Done(p, "NoKeysAvailable")
               /\ UNCHANGED <<keys, handedOut>>
          ELSE \E k \in UnusedKeys :
               /\ keys' = MarkUsed(keys, k)
               /\ handedOut' = [handedOut EXCEPT ![k] = @ + 1]
               /\ proc' = [proc EXCEPT ![p].pc = "c_blob", ![p].id = k]
               /\ UNCHANGED last
  /\ UNCHANGED <<worker, kgs, now, meta, blob, cache, purges, reaper,
                 puts, created, touched, purged, burnReads, opsLeft>>

\* s.storage.SaveContent
CreateSaveContent(p) ==
  /\ proc[p].pc = "c_blob"
  /\ \E ok \in Outcomes :
       /\ faults' = Spend(ok)
       /\ IF ok
          THEN /\ blob' = [blob EXCEPT ![proc[p].id] = compressContent(proc[p].content)]
               /\ puts' = [puts EXCEPT ![proc[p].id].blob = @ + 1]
               /\ proc' = [proc EXCEPT ![p].pc = "c_meta"]
               /\ UNCHANGED last
          ELSE /\ Done(p, "error")
               /\ UNCHANGED <<blob, puts>>
  /\ UNCHANGED <<worker, kgs, now, keys, meta, cache, purges, reaper,
                 handedOut, created, touched, purged, burnReads, opsLeft>>

\* `if !paste.BurnAfterRead` in front of both cache.Set calls
SkipsCacheNever(burn) == FALSE
SkipsCache(burn) == burn
\* where CreatePaste goes when pasteRepo.Create fails: the clean-up of the
\* blob, then the error return
AfterFailedInsertWarm == "c_cache"
AfterFailedInsert == "c_undo"
\* s.pasteRepo.Create; a burn paste skips the cache and returns
NewPaste(p) == [present |-> TRUE, has_expiry |-> proc[p].has_expiry,
                expires_at |-> proc[p].expires_at, created_at |-> now,
                burn |-> proc[p].burn]
CreateInsert(p) ==
  /\ proc[p].pc = "c_meta"
  /\ \E ok \in Outcomes :
       /\ faults' = Spend(ok)
       /\ IF ok /\ ~meta[proc[p].id].present
          THEN /\ meta' = [meta EXCEPT ![proc[p].id] = NewPaste(p)]
               /\ puts' = [puts EXCEPT ![proc[p].id].meta = @ + 1]
               /\ created' = [created EXCEPT ![proc[p].id] = proc[p].content]
               /\ IF SkipsCache(proc[p].burn)
                  THEN Done(p, "ok")
                  ELSE /\ proc' = [proc EXCEPT ![p].pc = "c_cache"]
                       /\ UNCHANGED last
          ELSE /\ proc' = [proc EXCEPT ![p].pc = AfterFailedInsert]
               /\ UNCHANGED <<meta, puts, created, last>>
  /\ UNCHANGED <<worker, kgs, now, keys, blob, cache, purges, reaper,
                 handedOut, touched, purged, burnReads, opsLeft>>

\* s.storage.DeleteContent after a failed insert
CreateUndo(p) ==
  /\ proc[p].pc = "c_undo"
  /\ \E ok \in Outcomes :
       /\ faults' = Spend(ok)
       /\ blob' = IF ok THEN DeleteContent(blob, proc[p].id) ELSE blob
  /\ Done(p, "error")
  /\ UNCHANGED <<worker, kgs, now, keys, meta, cache, purges, reaper, hist, opsLeft>>

\* `_ = s.cache.Set(...)`: the result of the call whatever cache.Set returned
AfterCacheSetChecked(ok) == IF ok THEN "ok" ELSE "error"
AfterCacheSet(ok) == "ok"
\* s.cache.Set (best effort) and the response
CreateWarm(p) ==
  /\ proc[p].pc = "c_cache"
  /\ \E ok \in Outcomes :
       /\ faults' = Spend(ok)
       /\ cache' = IF ok
                   THEN CacheSet(cache, proc[p].id, proc[p].content,
                                 cacheTTLFor(proc[p].has_expiry, proc[p].expires_at, now), now)
                   ELSE cache
       /\ Done(p, AfterCacheSet(ok))
  /\ UNCHANGED <<worker, kgs, now, keys, meta, blob, purges, reaper, hist, opsLeft>>

\* ---------------------------------------------------------------- GetPaste
\* PasteRepository.GetByShortID: the record of s in the metadata index
GetByShortIDCacheFirst(s) ==
  IF cache[s].present THEN [NoPaste EXCEPT !.present = TRUE] ELSE meta[s]
GetByShortID(s) == meta[s]

GetBegin(p) ==
  /\ Free(p)
  /\ opsLeft > 0
  /\ opsLeft' = opsLeft - 1
  /\ \E s \in KeySpace :
       proc' = [proc EXCEPT ![p] = [IdleProc EXCEPT !.pc = "g_meta", !.op = "get", !.id = s]]
  /\ UNCHANGED <<worker, kgs, now, faults, stores, purges, reaper, hist, last>>

\* s.pasteRepo.GetByShortID, then paste.IsExpired(): an expired paste
\* spawns the detached deletePaste and the call returns ErrPasteExpired
GetLookup(p) ==
  LET s == proc[p].id
  IN /\ proc[p].pc = "g_meta"
     /\ \E ok \in Outcomes :
          /\ faults' = Spend(ok)
          /\ IF ~ok
             THEN /\ Done(p, "error")
                  /\ UNCHANGED <<purges, touched>>
             ELSE IF ~GetByShortID(s).present
             THEN /\ Done(p, "NotFound")
                  /\ UNCHANGED <<purges, touched>>
             ELSE IF IsExpired(GetByShortID(s), now)
             THEN /\ CanSpawn
                  /\ purges' = SpawnPurge(s)
                  /\ touched' = [touched EXCEPT ![s] = TRUE]
                  /\ Done(p, "Expired")
             ELSE /\ proc' = [proc EXCEPT ![p].pc = "g_cache",
                                          ![p].has_expiry = GetByShortID(s).has_expiry,
                                          ![p].expires_at = GetByShortID(s).expires_at,
                                          ![p].burn = GetByShortID(s).burn]
                  /\ UNCHANGED <<purges, touched, last>>
     /\ UNCHANGED <<worker, kgs, now, stores, reaper, handedOut, puts, created,
                    purged, burnReads, opsLeft>>

\* the tail of GetPaste once the content is in hand: a burn paste spawns the
\* detached deletePaste, then the response is returned
GetReturn(p, content) ==
  LET s == proc[p].id
  IN IF proc[p].burn
     THEN /\ CanSpawn
          /\ purges' = SpawnPurge(s)
          /\ touched' = [touched EXCEPT ![s] = TRUE]
          /\ burnReads' = [burnReads EXCEPT ![s] = @ + 1]
          /\ proc' = [proc EXCEPT ![p] = IdleProc]
          /\ last' = Resp(p, "ok", content, FALSE)
     ELSE /\ proc' = [proc EXCEPT ![p] = IdleProc]
          /\ last' = Resp(p, "ok", content, FALSE)
          /\ UNCHANGED <<purges, touched, burnReads>>

\* s.cache.Get: an error counts as a miss
GetCache(p) ==
  LET s == proc[p].id
  IN /\ proc[p].pc = "g_cache"
     /\ \E ok \in Outcomes :
          /\ faults' = Spend(ok)
          /\ IF ok /\ cache[s].present
             THEN GetReturn(p, cache[s].content)
             ELSE /\ proc' = [proc EXCEPT ![p].pc = "g_blob"]
                  /\ UNCHANGED <<purges, touched, burnReads, last>>
     /\ UNCHANGED <<worker, kgs, now, stores, reaper, handedOut, puts, created,
                    purged, opsLeft>>

\* s.storage.GetContent on a cache miss
GetBlobResultUnmapped(b) == IF b = NoBlob THEN "error" ELSE "ok"
GetBlobResult(b) == IF b = NoBlob THEN "NotFound" ELSE "ok"
GetBlob(p) ==
  LET s == proc[p].id
  IN /\ proc[p].pc = "g_blob"
     /\ \E ok \in Outcomes :
          /\ faults' = Spend(ok)
          /\ IF ~ok
             THEN /\ Done(p, "error")
                  /\ UNCHANGED <<purges, touched, burnReads>>
             ELSE IF GetBlobResult(blob[s]) # "ok"
             THEN /\ Done(p, GetBlobResult(blob[s]))
                  /\ UNCHANGED <<purges, touched, burnReads>>
             ELSE IF SkipsCache(proc[p].burn)
             THEN GetReturn(p, decompressContent(blob[s]))
             ELSE /\ proc' = [proc EXCEPT ![p].pc = "g_warm",
                                          ![p].content = decompressContent(blob[s])]
                  /\ UNCHANGED <<purges, touched, burnReads, last>>
     /\ UNCHANGED <<worker, kgs, now, stores, reaper, handedOut, puts, created,
                    purged, opsLeft>>

\* s.cache.Set after a miss (best effort), then the response
GetWarm(p) ==
  /\ proc[p].pc = "g_warm"
  /\ \E ok \in Outcomes :
       /\ faults' = Spend(ok)
       /\ cache' = IF ok
                   THEN CacheSet(cache, proc[p].id, proc[p].content,
                                 cacheTTLFor(proc[p].has_expiry, proc[p].expires_at, now), now)
                   ELSE cache
       /\ last' = Resp(p, AfterCacheSet(ok), proc[p].content, FALSE)
  /\ proc' = [proc EXCEPT ![p] = IdleProc]
  /\ UNCHANGED <<worker, kgs, now, keys, meta, blob, purges, reaper, hist, opsLeft>>

\* ------------------------------------------------------------- DeletePaste
DeleteBegin(p) ==
  /\ Free(p)
  /\ opsLeft > 0
  /\ opsLeft' = opsLeft - 1
  /\ \E s \in KeySpace :
       proc' = [proc EXCEPT ![p] = [IdleProc EXCEPT !.pc = "d_meta", !.op = "delete", !.id = s]]
  /\ UNCHANGED <<worker, kgs, now, faults, stores, purges, reaper, hist, last>>

\* s.pasteRepo.GetByShortID: existence check
DeleteLookup(p) ==
  LET s == proc[p].id
  IN /\ proc[p].pc = "d_meta"
     /\ \E ok \in Outcomes :
          /\ faults' = Spend(ok)
          /\ IF ~ok
             THEN /\ Done(p, "error")
                  /\ UNCHANGED touched
             ELSE IF ~GetByShortID(s).present
             THEN /\ Done(p, "NotFound")
                  /\ UNCHANGED touched
             ELSE /\ proc' = [proc EXCEPT ![p].pc = "d_cache", ![p].clean = TRUE]
                  /\ touched' = [touched EXCEPT ![s] = TRUE]
                  /\ UNCHANGED last
     /\ UNCHANGED <<worker, kgs, now, stores, purges, reaper, handedOut, puts,
                    created, purged, burnReads, opsLeft>>

\* deletePaste, first call: s.cache.Delete
DeleteCache(p) ==
  /\ proc[p].pc = "d_cache"
  /\ \E ok \in Outcomes :
       /\ faults' = Spend(ok)
       /\ /\ cache' = IF ok THEN CacheDelete(cache, proc[p].id) ELSE cache
          /\ proc' = [proc EXCEPT ![p].pc = "d_blob"]
  /\ UNCHANGED <<worker, kgs, now, keys, meta, blob, purges, reaper, hist, opsLeft, last>>

\* deletePaste, second call: s.storage.DeleteContent
DeleteBlob(p) ==
  /\ proc[p].pc = "d_blob"
  /\ \E ok \in Outcomes :
       /\ faults' = Spend(ok)
       /\ /\ blob' = IF ok THEN DeleteContent(blob, proc[p].id) ELSE blob
          /\ proc' = [proc EXCEPT ![p].pc = "d_del", ![p].clean = @ /\ ok]
  /\ UNCHANGED <<worker, kgs, now, keys, meta, cache, purges, reaper, hist, opsLeft, last>>

\* deletePaste, third call: s.pasteRepo.Delete; DeletePaste returns nil
DeleteMeta(p) ==
  /\ proc[p].pc = "d_del"
  /\ \E ok \in Outcomes :
       /\ faults' = Spend(ok)
       /\ /\ meta' = IF ok THEN RepoDelete(meta, proc[p].id) ELSE meta
          /\ proc' = [proc EXCEPT ![p] = IdleProc]
          /\ last' = Resp(p, "ok", 0, proc[p].clean /\ ok)
  /\ purged' = [purged EXCEPT ![proc[p].id] = TRUE]
  /\ UNCHANGED <<worker, kgs, now, keys, blob, cache, purges, reaper,
                 handedOut, puts, created, touched, burnReads, opsLeft>>

\* ------------------------------------------- detached deletePaste goroutine
\* deletePaste drops the error of each call (`_ =`) and goes on to the next
NextPurgeStageOnSuccess(pc, ok) ==
  IF ~ok THEN "meta" ELSE IF pc = "cache" THEN "blob" ELSE "meta"
NextPurgeStage(pc, ok) == IF pc = "cache" THEN "blob" ELSE "meta"
PurgeCache(q) ==
  /\ purges[q].pc = "cache"
  /\ \E ok \in Outcomes :
       /\ faults' = Spend(ok)
       /\ cache' = IF ok THEN CacheDelete(cache, purges[q].id) ELSE cache
       /\ purges' = [purges EXCEPT ![q].pc = NextPurgeStage("cache", ok)]
  /\ UNCHANGED <<worker, kgs, now, keys, meta, blob, proc, reaper, hist, opsLeft, last>>

PurgeBlob(q) ==
  /\ purges[q].pc = "blob"
  /\ \E ok \in Outcomes :
       /\ faults' = Spend(ok)
       /\ blob' = IF ok THEN DeleteContent(blob, purges[q].id) ELSE blob
       /\ purges' = [purges EXCEPT ![q].pc = NextPurgeStage("blob", ok)]
  /\ UNCHANGED <<worker, kgs, now, keys, meta, cache, proc, reaper, hist, opsLeft, last>>

PurgeMeta(q) ==
  /\ purges[q].pc = "meta"
  /\ \E ok \in Outcomes :
       /\ faults' = Spend(ok)
       /\ meta' = IF ok THEN RepoDelete(meta, purges[q].id) ELSE meta
  /\ purged' = [purged EXCEPT ![purges[q].id] = TRUE]
  /\ purges' = [purges EXCEPT ![q] = FreePurge]
  /\ UNCHANGED <<worker, kgs, now, keys, blob, cache, proc, reaper,
                 handedOut, puts, created, touched, burnReads, opsLeft, last>>

\* the process ends (main returns after srv.Shutdown, which does not wait for
\* detached goroutines) while a deletePaste goroutine still has store calls
\* to make: they are never made
PurgeLost(q) ==
  /\ purges[q].pc \in {"cache", "blob", "meta"}
  /\ purges' = [purges EXCEPT ![q].pc = "lost"]
  /\ UNCHANGED <<worker, kgs, now, faults, stores, proc, reaper, hist, opsLeft, last>>

\* ---------------------------------------------------------- cleanup worker
\* GetExpiredBatch: up to `limit` records with expires_at < now, in any order
ExpiredAtAnyRecord(m, t) == {s \in KeySpace : m[s].present}
ExpiredAt(m, t) == {s \in KeySpace : m[s].present /\ m[s].has_expiry /\ m[s].expires_at < t}
\* PasteRepository.CountExpired
CountExpired(m, t) == Cardinality(ExpiredAt(m, t))
GetExpiredBatch(m, t, limit) ==
  LET E == ExpiredAt(m, t)
      n == Min(limit, Cardinality(E))
  IN {f \in [1..n -> E] : \A i, j \in 1..n : i # j => f[i] # f[j]}
Range(f) == {f[i] : i \in DOMAIN f}

\* `if err != nil { log.Printf(...); return }` in runCleanup: the cycle is
\* over and the worker waits for its ticker
AfterReaperErrorRetry == [IdleReaper EXCEPT !.pc = "query"]
AfterReaperError == IdleReaper
\* `case <-ctx.Done()` or `case <-w.stopCh` of the select in Start is ready
SelectReady == worker.ctx = "cancelled" \/ worker.stopCh = "closed"
\* a store call made with the context of Start: once that context is
\* cancelled the call returns the context's error
CtxOutcomes == IF worker.ctx = "cancelled" THEN {FALSE} ELSE Outcomes
SpendCtx(ok) == IF worker.ctx = "cancelled" THEN faults ELSE Spend(ok)
\* the ticker fires (or Start makes its initial call) and runCleanup begins,
\* or its loop comes round again: w.pasteRepo.GetExpiredBatch; an error or an
\* empty batch ends the cycle
ReaperQuery ==
  /\ reaper.pc \in {"idle", "query"}
  /\ worker.start = "running"
  /\ \E ok \in CtxOutcomes :
       /\ faults' = SpendCtx(ok)
       /\ IF ~ok
          THEN /\ reaper' = AfterReaperError
               /\ UNCHANGED touched
          ELSE \E b \in GetExpiredBatch(meta, now, BatchSize) :
               IF Len(b) = 0
               THEN /\ reaper' = IdleReaper
                    /\ UNCHANGED touched
               ELSE /\ reaper' = [pc |-> "cache", batch |-> b, i |-> 1,
                                total |-> IF reaper.pc = "idle" THEN 0 ELSE reaper.total,
                                due |-> IF reaper.pc = "idle" THEN ExpiredAt(meta, now)
                                        ELSE reaper.due]
                    /\ touched' = [s \in KeySpace |-> touched[s] \/ s \in Range(b)]
  /\ worker' = [worker EXCEPT !.late = @ \/ (reaper.pc = "idle" /\ SelectReady)]
  /\ UNCHANGED <<kgs, now, stores, proc, purges, handedOut, puts, created,
                 purged, burnReads, opsLeft, last>>

\* one w.cache.Delete of the first loop over shortIDs
ReaperCache ==
  /\ reaper.pc = "cache"
  /\ \E ok \in CtxOutcomes :
       /\ faults' = SpendCtx(ok)
       /\ cache' = IF ok THEN CacheDelete(cache, reaper.batch[reaper.i]) ELSE cache
  /\ reaper' = IF reaper.i < Len(reaper.batch)
               THEN [reaper EXCEPT !.i = @ + 1]
               ELSE [reaper EXCEPT !.pc = "blob", !.i = 1]
  /\ UNCHANGED <<worker, kgs, now, keys, meta, blob, proc, purges, hist, opsLeft, last>>

\* one w.storage.DeleteContent of the second loop over shortIDs
ReaperBlob ==
  /\ reaper.pc = "blob"
  /\ \E ok \in CtxOutcomes :
       /\ faults' = SpendCtx(ok)
       /\ blob' = IF ok THEN DeleteContent(blob, reaper.batch[reaper.i]) ELSE blob
  /\ reaper' = IF reaper.i < Len(reaper.batch)
               THEN [reaper EXCEPT !.i = @ + 1]
               ELSE [reaper EXCEPT !.pc = "meta", !.i = 1]
  /\ UNCHANGED <<worker, kgs, now, keys, meta, cache, proc, purges, hist, opsLeft, last>>

\* `if int64(len(expiredPastes)) < w.config.BatchSize { break }`
LastBatchAtLimit(b) == Len(b) <= BatchSize
LastBatch(b) == Len(b) < BatchSize
\* w.pasteRepo.DeleteMany; an error ends the cycle, a short batch too
ReaperDeleteMany ==
  /\ reaper.pc = "meta"
  /\ \E ok \in CtxOutcomes :
       /\ faults' = SpendCtx(ok)
       /\ IF ~ok
          THEN /\ reaper' = AfterReaperError
               /\ UNCHANGED <<meta, purged>>
          ELSE LET ids == Range(reaper.batch)
                   deleted == Cardinality({s \in ids : meta[s].present})
               IN /\ meta' = RepoDeleteMany(meta, ids)
                  /\ purged' = [s \in KeySpace |-> purged[s] \/ s \in ids]
                  /\ reaper' = IF LastBatch(reaper.batch)
                               THEN IdleReaper
                               ELSE [IdleReaper EXCEPT !.pc = "query",
                                                       !.total = reaper.total + deleted,
                                                       !.due = reaper.due]
  /\ UNCHANGED <<worker, kgs, now, keys, blob, cache, proc, purges,
                 handedOut, puts, created, touched, burnReads, opsLeft, last>>

\* ------------------------------------------------- CleanupWorker.Start/Stop
\* Start is called: it runs runCleanup once before it enters its select loop
WorkerStart ==
  /\ worker.start = "new"
  /\ worker' = [worker EXCEPT !.start = "running"]
  /\ reaper' = [IdleReaper EXCEPT !.pc = "query", !.due = ExpiredAt(meta, now)]
  /\ UNCHANGED <<kgs, now, faults, stores, proc, purges, hist, opsLeft, last>>

\* the select of Start takes `case <-ctx.Done()` or `case <-w.stopCh`:
\* close(w.doneCh); return
WorkerExit ==
  /\ worker.start = "running" /\ reaper.pc = "idle"
  /\ SelectReady
  /\ worker' = [worker EXCEPT !.start = "returned", !.doneCh = "closed",
                              !.closes = @ + 1]
  /\ UNCHANGED <<kgs, now, faults, stores, proc, purges, reaper, hist, opsLeft, last>>

\* cleanupCancel() of the shutdown sequence
CancelContext ==
  /\ worker.ctx = "live"
  /\ worker' = [worker EXCEPT !.ctx = "cancelled"]
  /\ UNCHANGED <<kgs, now, faults, stores, proc, purges, reaper, hist, opsLeft, last>>

\* Stop, first statement: close(w.stopCh), which panics on a closed channel
StopClose(c) ==
  /\ worker.stop[c] = "idle"
  /\ worker' = IF worker.stopCh = "closed"
               THEN [worker EXCEPT !.stop[c] = "panicked"]
               ELSE [worker EXCEPT !.stop[c] = "wait", !.stopCh = "closed"]
  /\ UNCHANGED <<kgs, now, faults, stores, proc, purges, reaper, hist, opsLeft, last>>

\* Stop, second statement: <-w.doneCh, which returns once doneCh is closed
StopWait(c) ==
  /\ worker.stop[c] = "wait"
  /\ worker.doneCh = "closed"
  /\ worker' = [worker EXCEPT !.stop[c] = "returned"]
  /\ UNCHANGED <<kgs, now, faults, stores, proc, purges, reaper, hist, opsLeft, last>>

\* ------------------------------------------------------------------- clock
\* a minute passes; the cache drops the entries whose TTL has run out
Tick ==
  /\ now < MaxTime
  /\ now' = now + 1
  /\ cache' = [s \in KeySpace |->
                 IF cache[s].present /\ cache[s].exp <= now + 1 THEN NoEntry ELSE cache[s]]
  /\ UNCHANGED <<worker, kgs, faults, keys, meta, blob, proc, purges, reaper, hist, opsLeft, last>>

\* ------------------------------------------------------------------ base62
\* a uint64 is kept as NumLimbs limbs below LimbBase, lowest first, so that
\* every product of the arithmetic stays small while the width is exactly 64
NumLimbs == 4
LimbBase == 65536
UInt64Zero == [i \in 1..NumLimbs |-> 0]
IsZero(num) == \A i \in 1..NumLimbs : num[i] = 0
MaxUint64 == [i \in 1..NumLimbs |-> LimbBase - 1]

\* `num*base + uint64(idx)` on uint64: the carry out of the top limb is lost
RECURSIVE MulAddFrom(_, _, _)
MulAddFrom(num, i, carry) ==
  IF i > NumLimbs THEN <<>>
  ELSE LET v == num[i] * base + carry
       IN <<v % LimbBase>> \o MulAddFrom(num, i + 1, v \div LimbBase)
MulAdd(num, idx) == MulAddFrom(num, 1, idx)

\* `num % base` and `num / base` on uint64, from the top limb down
RECURSIVE DivModFrom(_, _, _)
DivModFrom(num, i, rem) ==
  IF i = 0 THEN [q |-> <<>>, r |-> rem]
  ELSE LET cur == rem * LimbBase + num[i]
           rest == DivModFrom(num, i - 1, cur % base)
       IN [q |-> rest.q \o <<cur \div base>>, r |-> rest.r]
DivMod(num) == DivModFrom(num, NumLimbs, 0)

\* the characters, a string being a sequence of them
Charset ==
  <<"0", "1", "2", "3", "4", "5", "6", "7", "8", "9", "a", "b", "c", "d", "e", "f",
    "g", "h", "i", "j", "k", "l", "m", "n", "o", "p", "q", "r", "s", "t", "u", "v",
    "w", "x", "y", "z", "A", "B", "C", "D", "E", "F", "G", "H", "I", "J", "K", "L",
    "M", "N", "O", "P", "Q", "R", "S", "T", "U", "V", "W", "X", "Y", "Z">>
\* charIndex as init() fills it: the position in Charset, -1 for any other
\* character
charIndex(c) ==
  IF \E i \in 1..Len(Charset) : Charset[i] = c
  THEN (CHOOSE i \in 1..Len(Charset) : Charset[i] = c) - 1
  ELSE 0 - 1

ReverseNot(str) == str
Reverse(str) == [i \in 1..Len(str) |-> str[Len(str) + 1 - i]]
\* the loop of Encode: remainders, lowest digit first
RECURSIVE EncodeDigits(_)
EncodeDigits(num) ==
  IF IsZero(num) THEN <<>>
  ELSE LET dm == DivMod(num)
       IN <<Charset[dm.r + 1]>> \o EncodeDigits(dm.q)
Encode(num) == IF IsZero(num) THEN <<Charset[1]>> ELSE Reverse(EncodeDigits(num))

\* the loop of Decode from character i on
RECURSIVE DecodeFrom(_, _, _)
DecodeFrom(str, i, num) ==
  IF i > Len(str) THEN [err |-> "nil", num |-> num]
  ELSE IF charIndex(str[i]) < 0 THEN [err |-> "InvalidCharacter", num |-> UInt64Zero]
  ELSE DecodeFrom(str, i + 1, MulAdd(num, charIndex(str[i])))
Decode(str) ==
  IF Len(str) = 0 THEN [err |-> "InvalidCharacter", num |-> UInt64Zero]
  ELSE DecodeFrom(str, 1, UInt64Zero)

\* ------------------------------------------------------- functions alone
\* numbers with limbs near both ends of their range and around the base
LimbSamples ==
  (0..LimbSlack) \cup ((LimbBase - 1 - LimbSlack)..(LimbBase - 1)) \cup {base - 1, base}
UInt64Samples == [1..NumLimbs -> LimbSamples]
\* strings over the alphabet, up to the longest an Encode result can be:
\* the lowest digit mixed with the next, and with the highest
StringsOver(chars) == UNION {[1..n -> chars] : n \in 1..MaxStrLen}
StringSamples ==
  StringsOver({Charset[1], Charset[2]}) \cup StringsOver({Charset[1], Charset[Len(Charset)]})

\* Decode(Encode(num)); the call and what the two returned are kept in `last`
EncodeDecodeCall ==
  /\ last.op = "call" /\ last.fn = "Encode"
  /\ LET num == last.arg
         str == Encode(num)
         d == Decode(str)
     IN last' = [op |-> "Encode", arg |-> num, str |-> str, err |-> d.err, num |-> d.num]
  /\ UNCHANGED <<worker, kgs, now, faults, stores, proc, purges, reaper, hist, opsLeft>>
\* Encode(Decode(str)), Encode being called when Decode returned no error
DecodeEncodeCall ==
  /\ last.op = "call" /\ last.fn = "Decode"
  /\ LET str == last.arg
         d == Decode(str)
     IN last' = [op |-> "Decode", arg |-> str, err |-> d.err, num |-> d.num,
                 str |-> IF d.err = "nil" THEN Encode(d.num) ELSE <<>>]
  /\ UNCHANGED <<worker, kgs, now, faults, stores, proc, purges, reaper, hist, opsLeft>>

\* parseExpiration called on its own; the call and what it returned
\* (expiresAt, burnAfterRead, err) are kept in `last`
ParseExpirationCall ==
  /\ last.op = "call" /\ last.fn = "parseExpiration"
  /\ LET e == last.arg
         x == parseExpiration(e)
     IN last' = [op |-> "parseExpiration", arg |-> e, at |-> now,
                 has_expiry |-> x.has_expiry,
                 expires_at |-> IF x.has_expiry THEN now + x.duration ELSE 0,
                 burn |-> x.burn,
                 err |-> IF x.ok THEN "nil" ELSE "InvalidExpiresIn"]
  /\ UNCHANGED <<worker, kgs, now, faults, stores, proc, purges, reaper, hist, opsLeft>>

\* ------------------------------------------------------------ specification
Next ==
  \/ \E p \in Procs : CreateBegin(p)
  \/ \E p \in Procs : CreateGetKey(p)
  \/ \E p \in Procs : CreateSaveContent(p)
  \/ \E p \in Procs : CreateInsert(p)
  \/ \E p \in Procs : CreateWarm(p)
  \/ \E p \in Procs : GetBegin(p)
  \/ \E p \in Procs : GetLookup(p)
  \/ \E p \in Procs : GetCache(p)
  \/ \E p \in Procs : GetBlob(p)
  \/ \E p \in Procs : GetWarm(p)
  \/ \E p \in Procs : DeleteBegin(p)
  \/ \E p \in Procs : DeleteLookup(p)
  \/ \E p \in Procs : DeleteCache(p)
  \/ \E p \in Procs : DeleteBlob(p)
  \/ \E p \in Procs : DeleteMeta(p)
  \/ \E q \in PurgeSlots : PurgeCache(q)
  \/ \E q \in PurgeSlots : PurgeBlob(q)
  \/ \E q \in PurgeSlots : PurgeMeta(q)
  \/ ReaperQuery
  \/ ReaperCache
  \/ ReaperBlob
  \/ ReaperDeleteMany
  \/ Tick

\* the request path alone: the handlers and the detached purges, with the
\* clock and the cleanup worker standing still
NextReq ==
  \/ \E p \in Procs : CreateBegin(p)
  \/ \E p \in Procs : CreateGetKey(p)
  \/ \E p \in Procs : CreateSaveContent(p)
  \/ \E p \in Procs : CreateInsert(p)
  \/ \E p \in Procs : CreateWarm(p)
  \/ \E p \in Procs : GetBegin(p)
  \/ \E p \in Procs : GetLookup(p)
  \/ \E p \in Procs : GetCache(p)
  \/ \E p \in Procs : GetBlob(p)
  \/ \E p \in Procs : GetWarm(p)
  \/ \E p \in Procs : DeleteBegin(p)
  \/ \E p \in Procs : DeleteLookup(p)
  \/ \E p \in Procs : DeleteCache(p)
  \/ \E p \in Procs : DeleteBlob(p)
  \/ \E p \in Procs : DeleteMeta(p)
  \/ \E q \in PurgeSlots : PurgeCache(q)
  \/ \E q \in PurgeSlots : PurgeBlob(q)
  \/ \E q \in PurgeSlots : PurgeMeta(q)

\* the request path where store calls may fail, so that the compensating
\* delete of CreatePaste can run
NextF ==
  \/ NextReq
  \/ \E p \in Procs : CreateUndo(p)

Spec == Init /\ [][Next]_vars

\* the request path where CreatePaste is called with any request and store
\* calls may fail
NextValid ==
  \/ NextF
  \/ \E p \in Procs : CreateAnyRequest(p)
ValidSpec == InitValid /\ [][NextValid]_vars

\* the pure functions, each called once on an input of its bounded domain;
\* the clock value matters to parseExpiration alone
PendingCalls ==
  {[op |-> "call", fn |-> "parseExpiration", arg |-> e] : e \in ExpiresInStrings}
    \cup {[op |-> "call", fn |-> "Encode", arg |-> num] : num \in UInt64Samples}
    \cup {[op |-> "call", fn |-> "Decode", arg |-> str] : str \in StringSamples}
InitPure ==
  /\ now \in 0..MaxTime
  /\ keys = [k \in KeySpace |-> "unused"]
  /\ InitIdle
  /\ faults = 0 /\ opsLeft = 0
  /\ last \in PendingCalls
  /\ last.fn = "parseExpiration" \/ now = 0
NextPure ==
  \/ ParseExpirationCall
  \/ EncodeDecodeCall
  \/ DecodeEncodeCall
PureSpec == InitPure /\ [][NextPure]_vars
SpecF == InitF /\ [][NextF]_vars
\* a detached deletePaste goroutine, once spawned, keeps running: each of its
\* three store calls is eventually made
PurgeFairness ==
  \A q \in PurgeSlots :
    WF_vars(PurgeCache(q)) /\ WF_vars(PurgeBlob(q)) /\ WF_vars(PurgeMeta(q))
FairSpec == InitLive /\ [][NextReq]_vars /\ PurgeFairness

\* the cleanup worker next to the request path, with the clock standing still
\* so that no further record becomes expired
NextReap ==
  \/ NextReq
  \/ ReaperQuery
  \/ ReaperCache
  \/ ReaperBlob
  \/ ReaperDeleteMany
\* the worker goroutine keeps running: its ticker fires again and every store
\* call of runCleanup is eventually made
ReaperFairness ==
  /\ WF_vars(ReaperQuery) /\ WF_vars(ReaperCache)
  /\ WF_vars(ReaperBlob) /\ WF_vars(ReaperDeleteMany)
ReapSpec == InitReap /\ [][NextReap]_vars /\ ReaperFairness

\* the request path and the cleanup worker, where a detached purge can be
\* lost with the process; the worker (of the restarted server) keeps running
NextLost ==
  \/ NextReap
  \/ \E q \in PurgeSlots : PurgeLost(q)
LostSpec == InitLost /\ [][NextLost]_vars /\ ReaperFairness

\* the cleanup worker next to the request path with store calls failing now
\* and then; the worker goroutine keeps running as in ReapSpec
NextReapF ==
  \/ NextF
  \/ ReaperQuery
  \/ ReaperCache
  \/ ReaperBlob
  \/ ReaperDeleteMany
ReapFSpec == InitReapF /\ [][NextReapF]_vars /\ ReaperFairness

\* the life of one cleanup worker over a seeded store: Start, the cleanup
\* cycles, cancellation of the context and Stop calls in any order.  The
\* goroutine of Start keeps running, a Stop call that has closed stopCh goes
\* on to its receive, and the select of Start, which picks at random among
\* the ready cases, does not pick the ticker for ever
InitStop ==
  \E seed \in [KeySpace -> SeedKinds] :
    SeedInit(seed) /\ worker = NewWorker /\ faults = 0 /\ opsLeft = 0
NextStop ==
  \/ WorkerStart
  \/ WorkerExit
  \/ CancelContext
  \/ \E c \in Stoppers : StopClose(c)
  \/ \E c \in Stoppers : StopWait(c)
  \/ ReaperQuery
  \/ ReaperCache
  \/ ReaperBlob
  \/ ReaperDeleteMany
StopFairness ==
  /\ WF_vars(WorkerStart) /\ SF_vars(WorkerExit)
  /\ WF_vars(ReaperQuery) /\ WF_vars(ReaperCache)
  /\ WF_vars(ReaperBlob) /\ WF_vars(ReaperDeleteMany)
  /\ \A c \in Stoppers : WF_vars(StopWait(c))
StopSpec == InitStop /\ [][NextStop]_vars /\ StopFairness

\* the key service with its replenish worker next to the request path and
\* the cleanup worker, store calls failing now and then
NextKgs ==
  \/ NextF
  \/ ReaperQuery
  \/ ReaperCache
  \/ ReaperBlob
  \/ ReaperDeleteMany
  \/ KgsCheck
  \/ KgsInsert
  \/ KgsReturn
KgsSpec == InitKgs /\ [][NextKgs]_vars

\* the replenish worker next to the request path, stores responding. The
\* worker goroutine keeps running: its ticker fires again and every step of
\* GenerateKeys is eventually made; generateRandomKey draws from crypto/rand,
\* so while free keys exist a candidate that is not yet in the collection
\* keeps turning up
NextRepl ==
  \/ NextReq
  \/ KgsCheck
  \/ KgsInsert
  \/ KgsReturn
KgsInsertFresh == KgsInsert /\ CountTotalKeys(keys') > CountTotalKeys(keys)
ReplFairness ==
  /\ WF_vars(KgsCheck) /\ WF_vars(KgsInsert) /\ WF_vars(KgsReturn)
  /\ SF_vars(KgsInsertFresh)
ReplSpec == InitRepl /\ [][NextRepl]_vars /\ ReplFairness

\* the same, with GenerateKeys also called directly
NextGen ==
  \/ NextKgs
  \/ KgsGenerate
GenSpec == InitKgs /\ [][NextGen]_vars

\* ================================================================ claims
\* steps in which a call of handler p returns / passes its metadata lookup
Returns(p, op) == proc[p].op = op /\ proc[p].pc # "idle" /\ proc'[p].pc = "idle"
LookupStep(p) == proc[p].pc = "g_meta" /\ proc'[p].pc # "g_meta"
PurgePending(s) == \E q \in PurgeSlots : purges[q].pc # "free" /\ purges[q].id = s
\* the step ends the GetPaste call of handler p with NotFound
AnswersNotFound(p) ==
  /\ proc'[p].pc = "idle"
  /\ last' = [op |-> "get", id |-> proc[p].id, res |-> "NotFound", content |-> 0,
              clean |-> FALSE]

\* C1: no two GetNextKey calls that return a key return the same key, for
\* any initial pool and any interleaving of the callers
C1_NoKeyHandedOutTwice == \A k \in KeySpace : handedOut[k] <= 1
\* two handlers hold freshly reserved keys at the same time
C1_Witness ==
  /\ proc[1].pc = "c_blob" /\ proc[2].pc = "c_blob"
  /\ handedOut[proc[1].id] = 1 /\ handedOut[proc[2].id] = 1

\* C2: successful creates have pairwise distinct short_ids and no create
\* writes its blob or record over those of another paste: every short_id
\* receives at most one blob put and one metadata insert, and two creates in
\* flight never hold the same short_id
C2_ShortIdIdentifiesOnePaste ==
  /\ \A s \in KeySpace : puts[s].blob <= 1 /\ puts[s].meta <= 1
  /\ \A p, q \in Procs :
       (p # q /\ proc[p].op = "create" /\ proc[q].op = "create" /\ proc[p].id # 0)
         => proc[p].id # proc[q].id
\* two creates have committed two pastes
C2_Witness ==
  \E s, u \in KeySpace : s # u /\ created[s] # 0 /\ created[u] # 0
                         /\ puts[s].meta = 1 /\ puts[u].meta = 1

\* C3: a GetPaste of a created paste that is not expired and that no
\* deletion path or burn read has touched returns exactly the created content
Live(s) == created[s] # 0 /\ ~touched[s] /\ ~IsExpired(meta[s], now)
C3_ReadReturnsCreatedContent ==
  [][\A p \in Procs :
       (Returns(p, "get") /\ Live(proc[p].id))
         => (last'.res = "ok" /\ last'.content = created[proc[p].id])]_vars
\* a read served from the cache while the paste is still cached and untouched
C3_Witness ==
  /\ last.op = "get" /\ last.res = "ok" /\ last.id # 0
  /\ created[last.id] # 0 /\ last.content = created[last.id]
  /\ cache[last.id].present /\ ~touched[last.id]

\* C4 (as claimed): a GetPaste on a paste whose expires_at is <= the current
\* instant returns Expired
C4_ExpiredAtOrBeforeNow ==
  [][\A p \in Procs :
       (LookupStep(p) /\ meta[proc[p].id].present /\ meta[proc[p].id].has_expiry
          /\ meta[proc[p].id].expires_at <= now)
         => last'.res = "Expired"]_vars
\* C4 (amended): a GetPaste returns Expired, without content and with a purge
\* of the short_id scheduled, exactly when expires_at is present and strictly
\* before the current instant; at expires_at = now, and with no expires_at,
\* the read goes on to the content
C4_ExpiredStrictlyBeforeNow ==
  [][\A p \in Procs :
       (LookupStep(p) /\ meta[proc[p].id].present)
         => IF meta[proc[p].id].has_expiry /\ meta[proc[p].id].expires_at < now
            THEN /\ last' = [op |-> "get", id |-> proc[p].id, res |-> "Expired",
                             content |-> 0, clean |-> FALSE]
                 /\ \E q \in PurgeSlots :
                      purges[q].pc = "free" /\ purges'[q] = [pc |-> "cache", id |-> proc[p].id]
            ELSE proc'[p].pc = "g_cache" /\ last' = last]_vars
\* a read of a paste past its expires_at was answered Expired, purge pending
C4_Witness ==
  /\ last.op = "get" /\ last.res = "Expired"
  /\ meta[last.id].present /\ meta[last.id].expires_at < now
  /\ PurgePending(last.id)

\* C5: after a GetPaste of a burn paste has returned its content the detached
\* purge eventually completes, record and blob are gone for good, and every
\* GetPaste of that short_id that looks the record up from then on is
\* answered NotFound
C5_BurnEventuallyPurged ==
  /\ \A s \in KeySpace :
       (burnReads[s] > 0) ~> [](~meta[s].present /\ blob[s] = NoBlob /\ ~PurgePending(s))
  /\ [][\A p \in Procs :
          (LookupStep(p) /\ burnReads[proc[p].id] > 0 /\ ~meta[proc[p].id].present)
            => AnswersNotFound(p)]_vars
\* a read of a burned paste, made after its purge landed, was answered NotFound
C5_Witness ==
  /\ last.op = "get" /\ last.res = "NotFound" /\ last.id # 0
  /\ burnReads[last.id] > 0 /\ ~meta[last.id].present /\ ~PurgePending(last.id)

C7_NoCacheEntryAfterDeletion ==
  \A s \in KeySpace : purged[s] => ~cache[s].present

\* C8: once the metadata record of s has been deleted it never comes back,
\* and every GetPaste(s) that looks it up from then on is answered NotFound,
\* whatever the cache and the blob store still hold
Deleted(s) == created[s] # 0 /\ ~meta[s].present
C9_ContentOrNotFound ==
  /\ [](last.op = "get" =>
          \/ last.res = "ok" /\ last.content # 0 /\ last.content = created[last.id]
          \/ last.res \in {"NotFound", "Expired"} /\ last.content = 0)
  /\ [][\A p \in Procs :
          (proc[p].pc = "g_blob" /\ proc'[p].pc # "g_blob" /\ blob[proc[p].id] = NoBlob)
            => AnswersNotFound(p)]_vars
\* a read lost the race: the record is still there, the blob already gone
C9_Witness ==
  /\ last.op = "get" /\ last.res = "NotFound" /\ last.id # 0
  /\ meta[last.id].present /\ blob[last.id] = NoBlob

\* C10: every read of a burn paste that returned its content has scheduled a
\* detached purge, and until that purge lands the record stays readable, so
\* that a second read can return the content too
C10_BurnReadsPurgeAsynchronously ==
  \A s \in KeySpace :
    burnReads[s] > 0 => (PurgePending(s) \/ ~meta[s].present)
\* two reads of one burn paste have both returned its content
C10_Witness ==
  \E s \in KeySpace : burnReads[s] >= 2 /\ meta[s].burn /\ PurgePending(s)

\* C11: a cache entry under s, if present, holds exactly the content that
\* the create of s committed to the blob store
C11_CacheHoldsCreatedContent ==
  \A s \in KeySpace :
    cache[s].present => (created[s] # 0 /\ cache[s].content = created[s])
\* a read has just been answered with the content the cache holds for s
C11_Witness ==
  \E s \in KeySpace :
    /\ cache[s].present /\ created[s] # 0
    /\ last.op = "get" /\ last.id = s /\ last.res = "ok"
    /\ last.content = cache[s].content

\* C12: a burn paste is never in the cache: no entry exists for a present
\* burn record or for a short_id whose burn paste has been read, and no step
\* taken while a handler works on a burn paste writes an entry for it
C12_BurnPasteNeverCached ==
  /\ [](\A s \in KeySpace :
          cache[s].present => (~(meta[s].present /\ meta[s].burn) /\ burnReads[s] = 0))
  /\ [][\A p \in Procs :
          (proc[p].id # 0 /\ proc[p].burn)
            => (cache'[proc[p].id] = cache[proc[p].id] \/ ~cache'[proc[p].id].present)]_vars
\* a burn paste has been read, is still on record and is not in the cache
C12_Witness ==
  \E s \in KeySpace :
    burnReads[s] > 0 /\ meta[s].present /\ meta[s].burn /\ ~cache[s].present

\* a step in which a running cleanup cycle ends
CycleEnds == reaper.pc # "idle" /\ reaper'.pc = "idle"

\* C13: when a cleanup cycle completes without store errors, every paste that
\* was expired when the cycle began is absent from the cache, the blob store
\* and the metadata index
C13_CycleClearsAllTiers ==
  [][CycleEnds =>
       \A s \in reaper.due :
         ~meta'[s].present /\ blob'[s] = NoBlob /\ ~cache'[s].present]_vars

\* C14: the cleanup worker only selects records whose expires_at is present
\* and strictly before the instant of the batch query, and its deletes touch
\* the cache entry, blob and record of the selected short_ids only; every
\* other paste is left unchanged in all three tiers
C14_ReaperLeavesUnexpiredAlone ==
  [][reaper' # reaper =>
       /\ reaper'.batch # reaper.batch =>
            \A s \in Range(reaper'.batch) :
              meta[s].present /\ meta[s].has_expiry /\ meta[s].expires_at < now
       /\ \A s \in KeySpace :
            (cache'[s] # cache[s] \/ blob'[s] # blob[s] \/ meta'[s] # meta[s])
              => s \in Range(reaper.batch)]_vars
\* a batch has removed an expired paste while a paste that is not expired
\* is still in the metadata index and the blob store
C14_Witness ==
  \E s, u \in KeySpace :
    /\ reaper.pc = "query" /\ s \in reaper.due /\ ~meta[s].present
    /\ meta[u].present /\ ~IsExpired(meta[u], now) /\ blob[u] # NoBlob

\* C15: with no store errors and no further record becoming expired, a
\* running cleanup cycle ends after finitely many batches (it never deletes
\* more records than were expired when it began) and count_expired() is 0
\* when it has ended
C15_CycleTerminatesAndDrains ==
  /\ (reaper.pc # "idle") ~> (reaper.pc = "idle" /\ CountExpired(meta, now) = 0)
  /\ [](reaper.total <= Cardinality(reaper.due))
\* the worker alone has drained a store that held more expired records than
\* one batch takes
C15_Witness ==
  /\ reaper.pc = "idle" /\ opsLeft = MaxOpsReap
  /\ Cardinality({s \in KeySpace : purged[s]}) > BatchSize
  /\ CountExpired(meta, now) = 0

\* C16: reaper idempotence.  With no record newly crossing its expires_at,
\* the batch query that a second cycle would make right after a cycle has
\* ended is empty, and a cycle whose first query is empty deletes nothing and
\* changes no tier: it ends at once
C16_SecondCycleDeletesNothing ==
  [][/\ CycleEnds => GetExpiredBatch(meta', now', BatchSize) = {<<>>}
     /\ (reaper.pc = "idle" /\ GetExpiredBatch(meta, now, BatchSize) = {<<>>})
          => reaper' = reaper]_vars
\* the worker alone has ended a cycle that deleted records, and nothing else
\* is running: a second cycle would start from here
C16_Witness ==
  /\ reaper.pc = "idle" /\ opsLeft = MaxOpsReap
  /\ \E s \in KeySpace : purged[s] /\ created[s] = SeedContent(s) /\ ~meta[s].present
  /\ \E u \in KeySpace : meta[u].present /\ cache[u].present

\* C17: every metadata record written by CreatePaste has expires_at absent
\* or strictly after its created_at
C17_ExpiresAfterCreated ==
  \A s \in KeySpace :
    (meta[s].present /\ meta[s].has_expiry) => meta[s].expires_at > meta[s].created_at

\* a deletion of s is under way: DeletePaste past its lookup, a detached
\* purge, or a cleanup batch that holds s
DeletionInProgress(s) ==
  \/ \E p \in Procs : proc[p].op = "delete" /\ proc[p].id = s
                        /\ proc[p].pc \in {"d_cache", "d_blob", "d_del"}
  \/ PurgePending(s)
  \/ reaper.pc # "idle" /\ s \in Range(reaper.batch)
\* C18: a present metadata record has its blob present unless a deletion of
\* its short_id is in progress, also when store calls fail
C18_RecordHasBlob ==
  \A s \in KeySpace :
    (meta[s].present /\ blob[s] = NoBlob) => DeletionInProgress(s)

\* the step in which the GetNextKey call of handler p returns
KeyCallReturns(p) == proc[p].pc = "c_kgs" /\ proc'[p].pc # "c_kgs"

\* C19: the used flag of a key is monotonic: a used key stays used, no key
\* record is ever removed, and a key turns from unused to used only in the
\* GetNextKey step that returns this key to its caller
C19_UsedFlagMonotonic ==
  [][\A k \in KeySpace :
       /\ keys[k] = "used" => keys'[k] = "used"
       /\ keys[k] = "unused" => keys'[k] \in {"unused", "used"}
       /\ (keys[k] = "unused" /\ keys'[k] = "used")
            => \E p \in Procs :
                 KeyCallReturns(p) /\ proc'[p].pc = "c_blob" /\ proc'[p].id = k]_vars
\* the create that reserved k has failed, k is still used, and GenerateKeys
\* is running next to it
C19_Witness ==
  \E k \in KeySpace :
    /\ keys[k] = "used" /\ handedOut[k] = 1 /\ created[k] = 0
    /\ last.op = "create" /\ last.res = "error" /\ last.id = k
    /\ kgs.pc = "gen" /\ kgs.i > 0

\* C20: GetNextKey answers NoKeysAvailable exactly when its find-and-modify
\* finds no unused key; a call that fails changes no key record; a call that
\* succeeds returns a key that was unused, lowers the unused count by exactly
\* one and leaves the total key count unchanged
C20_GetNextKeyOutcome ==
  [][\A p \in Procs :
       KeyCallReturns(p) =>
         IF proc'[p].pc = "idle"
         THEN /\ keys' = keys
              /\ last'.res \in {"NoKeysAvailable", "error"}
              /\ last'.res = "NoKeysAvailable" => CountUnusedKeys(keys) = 0
         ELSE /\ CountUnusedKeys(keys) > 0
              /\ keys[proc'[p].id] = "unused"
              /\ CountUnusedKeys(keys') = CountUnusedKeys(keys) - 1
              /\ CountTotalKeys(keys') = CountTotalKeys(keys)]_vars
\* a create has been answered NoKeysAvailable by a pool that holds keys, all
\* of them used
C20_Witness ==
  /\ last.op = "create" /\ last.res = "NoKeysAvailable"
  /\ CountUnusedKeys(keys) = 0 /\ CountTotalKeys(keys) > 0

\* C21: GenerateKeys(n) makes at most 3n insert attempts and adds at most n
\* keys; the count it returns is exactly the number of key records it has
\* added; a candidate that collides with an existing key, used or unused,
\* leaves that key as it is, every key it adds is unused; for n <= 0 it makes
\* no attempt and returns 0
C21_GenerateKeysCount ==
  /\ [](kgs.pc = "gen" =>
          /\ kgs.i <= (IF kgs.count > 0 THEN 3 * kgs.count ELSE 0)
          /\ kgs.generated <= (IF kgs.count > 0 THEN kgs.count ELSE 0)
          /\ kgs.generated <= kgs.i
          /\ CountTotalKeys(keys) = kgs.base + kgs.generated)
  /\ [][(kgs.pc = "gen" /\ kgs' # kgs) =>
          \A k \in KeySpace :
            IF keys[k] = "absent" THEN keys'[k] \in {"absent", "unused"}
            ELSE keys'[k] = keys[k]]_vars
\* GenerateKeys(2) has used up its six attempts on collisions after adding
\* one key
C21_Witness ==
  /\ kgs.pc = "gen" /\ kgs.count = 2 /\ kgs.i = 3 * kgs.count
  /\ kgs.generated = 1 /\ CountTotalKeys(keys) = kgs.base + 1

\* the key space still has the free keys to fill the pool up to the threshold
\* whatever the creates at hand and to come take out of it
FreeKeysSuffice ==
  NumKeys - CountTotalKeys(keys) >=
    (MinKeysThreshold - CountUnusedKeys(keys)) + opsLeft
      + Cardinality({p \in Procs : proc[p].pc = "c_kgs"})
\* C22: while the replenish worker runs (stores responding, key space not
\* used up), an unused pool below MinKeysThreshold is eventually back at the
\* threshold; the worker enters GenerateKeys only from a check that counted
\* fewer unused keys than the threshold, and then with BatchSize; keys are
\* only ever added inside such a GenerateKeys call, so a check at or above
\* the mark adds none
C22_ReplenishBelowThreshold ==
  /\ ((CountUnusedKeys(keys) < MinKeysThreshold /\ FreeKeysSuffice)
        ~> CountUnusedKeys(keys) >= MinKeysThreshold)
  /\ [][(kgs.pc = "idle" /\ kgs'.pc = "gen") =>
          /\ CountUnusedKeys(keys) < MinKeysThreshold
          /\ kgs'.count = KgsBatchSize]_vars
  /\ [][(\E k \in KeySpace : keys[k] = "absent" /\ keys'[k] # "absent") =>
          (kgs.pc = "gen" /\ kgs.count = KgsBatchSize)]_vars
\* the worker has refilled a pool that a create had emptied
C22_Witness ==
  /\ \E p \in Procs : proc[p].op = "create" /\ proc[p].id # 0
  /\ kgs.pc = "gen" /\ kgs.generated = KgsBatchSize
  /\ CountUnusedKeys(keys) >= MinKeysThreshold

\* the detached purge of s ended with the process before it was done
LostPurge(s) == \E q \in PurgeSlots : purges[q].pc = "lost" /\ purges[q].id = s
Reclaimed(s) == ~meta[s].present /\ blob[s] = NoBlob /\ ~cache[s].present
\* C23: a paste whose detached burn or expiry purge was lost is eventually
\* absent from the cache, the blob store and the metadata index, removed by
\* the cleanup worker, whether it is a burn-after-read paste or a
\* time-expired one
C23_LostPurgeReclaimed ==
  \A s \in KeySpace : LostPurge(s) ~> Reclaimed(s)
\* minutes of the fixed tokens as the specification's table gives them
TableMinutes(e) ==
  CASE e = "10m" -> 10 [] e = "30m" -> 30
    [] e = "1h" -> 60 [] e = "6h" -> 6 * 60 [] e = "12h" -> 12 * 60
    [] e = "1d" -> 24 * 60 [] e = "3d" -> 3 * 24 * 60
    [] e = "1w" -> 7 * 24 * 60 [] e = "2w" -> 2 * 7 * 24 * 60
    [] e = "1M" -> 30 * 24 * 60
\* C24: parseExpiration maps "" and "never" to no expiry and no burn, "burn"
\* to no expiry with burn, each fixed token to now plus its table duration,
\* any other duration expression that time.ParseDuration accepts to now plus
\* that duration, anything else to InvalidExpiresIn; burn only for "burn"
C24_ParseExpirationTable ==
  last.op = "parseExpiration" =>
    /\ last.arg \in {"", "never"} =>
         (last.err = "nil" /\ ~last.has_expiry /\ ~last.burn)
    /\ last.arg = "burn" => (last.err = "nil" /\ ~last.has_expiry /\ last.burn)
    /\ last.arg \in FixedTokens =>
         /\ last.err = "nil" /\ last.has_expiry /\ ~last.burn
         /\ last.expires_at = last.at + TableMinutes(last.arg)
    /\ last.arg \in GoDurations =>
         /\ last.err = "nil" /\ last.has_expiry /\ ~last.burn
         /\ last.expires_at = last.at + ParseDuration(last.arg)
    /\ last.arg \in Malformed =>
         (last.err = "InvalidExpiresIn" /\ ~last.has_expiry /\ ~last.burn)
    /\ last.burn => last.arg = "burn"
\* "1M" parsed while the clock stood past its start: thirty days from then
C24_Witness ==
  /\ last.op = "parseExpiration" /\ last.arg = "1M"
  /\ last.at = MaxTime /\ last.expires_at = MaxTime + 30 * 24 * 60

ValidationErrors ==
  {"EmptyContent", "ContentTooLarge", "InvalidSyntaxType", "InvalidExpiresIn"}
\* the step is a CreatePaste call that returns a validation error (of the
\* steps that take up a request, only this one leaves every handler as it was)
CreateRejected ==
  /\ opsLeft' < opsLeft /\ proc' = proc
  /\ last'.op = "create" /\ last'.res \in ValidationErrors
\* the step is a CreatePaste call of handler p that passes validation
CreateAccepted(p) ==
  opsLeft' < opsLeft /\ proc[p].pc = "idle" /\ proc'[p].op = "create"
\* what the specification asks of a request
RequestValid(r) ==
  /\ r.len >= 1 /\ r.len <= 1048576
  /\ r.syntax \in {"", " Go ", "PYTHON"}
  /\ r.expires_in \notin Malformed
\* C25: a CreatePaste rejected by validation reserves no key and writes
\* nothing to blob store, metadata index or cache, and starts nothing that
\* would; a request that breaks a validation rule never gets past validation
C25_RejectedCreateNoSideEffect ==
  [][/\ CreateRejected =>
          UNCHANGED <<keys, meta, blob, cache, handedOut, puts, created, purges>>
     /\ \A p \in Procs : CreateAccepted(p) => RequestValid(proc'[p].req)]_vars
\* a request with an unlisted syntax type was turned down while another
\* create was between its store calls
C25_Witness ==
  /\ last.op = "create" /\ last.res = "InvalidSyntaxType"
  /\ \E p \in Procs : proc[p].pc = "c_meta"

\* C26: CreatePaste lets content of every length from 1 to 1,048,576 bytes
\* pass the size checks, answers length 0 with EmptyContent and every length
\* of 1,048,577 or more with ContentTooLarge
C26_ContentLengthBounds ==
  [][/\ \A p \in Procs :
          CreateAccepted(p) => (proc'[p].req.len >= 1 /\ proc'[p].req.len <= 1048576)
     /\ CreateRejected =>
          /\ last'.req.len = 0 => last'.res = "EmptyContent"
          /\ last'.req.len >= 1048577 => last'.res = "ContentTooLarge"
          /\ (last'.req.len >= 1 /\ last'.req.len <= 1048576) =>
               /\ last'.res \in {"InvalidSyntaxType", "InvalidExpiresIn"}
               /\ ~RequestValid(last'.req)]_vars
\* a create of exactly 1,048,576 bytes has gone through to the metadata index
C26_Witness ==
  \E p \in Procs :
    /\ proc[p].op = "create" /\ proc[p].req.len = 1048576
    /\ proc[p].id # 0 /\ meta[proc[p].id].present

\* the step is the existence check of the DeletePaste call of handler p
DeleteLookupStep(p) == proc[p].pc = "d_meta" /\ proc'[p].pc # "d_meta"
\* C27: a DeletePaste of a short_id that has no metadata record returns
\* NotFound, and returns at its existence check: cache, blob store and
\* metadata index stay as they are and no purge is started
C27_DeleteMissingIsNotFound ==
  [][\A p \in Procs :
       (DeleteLookupStep(p) /\ ~meta[proc[p].id].present) =>
         /\ proc'[p].pc = "idle"
         /\ last' = [op |-> "delete", id |-> proc[p].id, res |-> "NotFound",
                     content |-> 0, clean |-> FALSE]
         /\ UNCHANGED <<meta, blob, cache, purges>>]_vars
\* a delete answered NotFound for a paste that was created and removed
\* before, whose content the cache still holds
C27_Witness ==
  /\ last.op = "delete" /\ last.res = "NotFound" /\ last.id # 0
  /\ Deleted(last.id) /\ cache[last.id].present

\* C28: Decode(Encode(n)) returns n, without error, for every uint64 n, 0
\* and 2^64 - 1 included
C28_Base62RoundTrip ==
  last.op = "Encode" => (last.err = "nil" /\ last.num = last.arg)
\* 2^64 - 1 encodes to the eleven characters lYGhA16ahyf and decodes back
C28_Witness ==
  /\ last.op = "Encode" /\ last.arg = MaxUint64 /\ last.num = MaxUint64
  /\ last.str = <<"l", "Y", "G", "h", "A", "1", "6", "a", "h", "y", "f">>

\* s without its leading '0' characters, "0" when nothing else is left
RECURSIVE StripLeadingZeros(_)
StripLeadingZeros(str) ==
  IF Len(str) > 1 /\ Head(str) = "0" THEN StripLeadingZeros(Tail(str)) ELSE str
\* C29: for every non-empty string s over the alphabet, of any length,
\* Decode(s) returns no error and Encode(Decode(s)) is s without its leading
\* '0' characters, also when the value of s is above 2^64 - 1
C29_Base62CanonicalString ==
  last.op = "Decode" => (last.err = "nil" /\ last.str = StripLeadingZeros(last.arg))

\* C30: CreatePaste writes the cache only after its blob write and its
\* metadata insert have both succeeded, and only in the step that returns
\* success: a cached short_id has had its blob and its record committed, and
\* no step of a create that fails at the key, the blob write or the metadata
\* insert (or in the clean-up after it) changes the cache
C30_DurableBeforeCache ==
  /\ [](\A s \in KeySpace :
          cache[s].present => (puts[s].blob > 0 /\ puts[s].meta > 0))
  /\ [][\A p \in Procs :
          (proc[p].op = "create" /\ proc'[p] # proc[p]) =>
            /\ cache' # cache =>
                 /\ proc[p].pc = "c_cache"
                 /\ puts[proc[p].id].blob > 0 /\ puts[proc[p].id].meta > 0
                 /\ last'.res = "ok"
            /\ (proc'[p].pc = "idle" /\ last'.res # "ok") =>
                 /\ cache' = cache
                 /\ proc[p].id # 0 => ~cache[proc[p].id].present]_vars
\* a create has warmed the cache after both commits, in a run in which a store
\* call had failed
C30_Witness ==
  /\ last.op = "create" /\ last.res = "ok" /\ last.id # 0
  /\ cache[last.id].present /\ cache[last.id].content = created[last.id]
  /\ puts[last.id].blob > 0 /\ puts[last.id].meta > 0
  /\ faults < MaxFaults

\* C31: a CreatePaste that fails after it has reserved short_id s leaves
\* nothing behind: when the blob write fails, and when the metadata insert
\* fails and the delete of the blob written just before succeeds, no tier
\* holds anything for s once the call has returned
C31_FailedCreateReversed ==
  [][\A p \in Procs :
       (Returns(p, "create") /\ last'.res = "error" /\ proc[p].id # 0
          /\ (proc[p].pc = "c_blob" \/ (proc[p].pc = "c_undo" /\ faults' = faults))) =>
         /\ ~meta'[proc[p].id].present
         /\ blob'[proc[p].id] = NoBlob
         /\ ~cache'[proc[p].id].present]_vars
\* a create whose metadata insert failed has returned after taking back the
\* blob it had written
C31_Witness ==
  /\ last.op = "create" /\ last.res = "error" /\ last.id # 0
  /\ puts[last.id].blob > 0 /\ puts[last.id].meta = 0
  /\ blob[last.id] = NoBlob /\ ~meta[last.id].present /\ ~cache[last.id].present
  /\ faults = MaxFaults - 1

C33_PurgeBestEffort ==
  [][/\ \A p \in Procs :
          /\ (proc[p].pc = "d_cache" /\ proc'[p] # proc[p]) => proc'[p].pc = "d_blob"
          /\ (proc[p].pc = "d_blob" /\ proc'[p] # proc[p]) => proc'[p].pc = "d_del"
          /\ (proc[p].pc = "d_del" /\ proc'[p] # proc[p]) =>
               /\ proc'[p].pc = "idle"
               /\ last'.op = "delete" /\ last'.id = proc[p].id /\ last'.res = "ok"
          /\ (Returns(p, "get") /\ purges' # purges) => last'.res \in {"ok", "Expired"}
     /\ \A q \in PurgeSlots :
          /\ (purges[q].pc = "cache" /\ purges'[q] # purges[q]) => purges'[q].pc = "blob"
          /\ (purges[q].pc = "blob" /\ purges'[q] # purges[q]) => purges'[q].pc = "meta"
          /\ (purges[q].pc = "meta" /\ purges'[q] # purges[q]) => purges'[q].pc = "free"
          /\ (purges[q].pc # "free" /\ purges'[q] # purges[q] /\ Reclaimed(purges[q].id))
               => UNCHANGED <<meta, blob, cache>>]_vars
\* a detached purge stands at its metadata delete after its blob delete failed
C33_Witness ==
  \E q \in PurgeSlots :
    /\ purges[q].pc = "meta" /\ faults < MaxFaults
    /\ blob[purges[q].id] # NoBlob /\ meta[purges[q].id].present

\* a store call of runCleanup that can end the cycle fails: GetExpiredBatch
\* or DeleteMany (every failing step of another process moves that process)
ReaperCallFails ==
  /\ reaper.pc \in {"idle", "query", "meta"}
  /\ faults' < faults
  /\ proc' = proc /\ purges' = purges /\ kgs' = kgs
\* an expired record the worker has selected and that is still in metadata
\* after a store call failed
FailedBatchRecord(s) ==
  /\ faults < MaxFaults /\ touched[s]
  /\ s \in ExpiredAt(meta, now)
\* C34: a failing GetExpiredBatch or DeleteMany ends the cleanup cycle on the
\* spot (no further batch is fetched, no tier is changed by the step, the
\* records of the batch stay in metadata), the worker goes back to waiting for
\* its ticker, and every expired record left behind is removed by a later
\* cycle once the store calls succeed again
C34_ReaperErrorEndsCycle ==
  /\ [][ReaperCallFails =>
          /\ reaper'.pc = "idle" /\ reaper'.batch = <<>>
          /\ UNCHANGED <<meta, blob, cache>>]_vars
  /\ \A s \in KeySpace : FailedBatchRecord(s) ~> ~meta[s].present
\* DeleteMany has failed after the cache and blob deletes of the batch: the
\* worker is idle and the record is still there
C34_Witness ==
  \E s \in KeySpace :
    /\ FailedBatchRecord(s) /\ reaper = IdleReaper
    /\ blob[s] = NoBlob /\ ~cache[s].present
    /\ \A p \in Procs : proc[p].pc = "idle"
    /\ \A q \in PurgeSlots : purges[q].pc = "free"
    /\ opsLeft = MaxOpsReapF

\* process p writes the cache entry of its paste (cache.Set of CreatePaste or
\* of a cache-miss GetPaste succeeded)
CacheWrite(p) ==
  /\ proc[p].pc \in {"c_cache", "g_warm"}
  /\ proc'[p].pc = "idle"
  /\ faults' = faults
\* C35: a cache entry written for a paste with an expires_at runs out at
\* min(now + default TTL, expires_at), so never after expires_at, also when
\* expires_at is not in the future at the moment of the write
C35_CacheEntryWithinExpiry ==
  [][\A p \in Procs :
       (CacheWrite(p) /\ proc[p].has_expiry) =>
         /\ cache'[proc[p].id].present
         /\ cache'[proc[p].id].exp =
              Min(Min(now + DefaultCacheTTL, proc[p].expires_at), Horizon)]_vars

\* the store call that process p makes in this step fails
CallFails(p) == proc'[p] # proc[p] /\ faults' < faults
\* C36: a failing cache call never changes what a request returns.  A failed
\* cache.Set ends CreatePaste and GetPaste with success all the same (the read
\* with the content it fetched), and a failed cache.Get sends GetPaste to the
\* blob store like a miss, whose content it then serves
C36_CacheFailureSwallowed ==
  [][\A p \in Procs :
       /\ (proc[p].pc = "c_cache" /\ CallFails(p)) =>
            /\ proc'[p].pc = "idle" /\ cache' = cache
            /\ last'.op = "create" /\ last'.id = proc[p].id /\ last'.res = "ok"
       /\ (proc[p].pc = "g_warm" /\ CallFails(p)) =>
            /\ proc'[p].pc = "idle" /\ cache' = cache
            /\ last'.op = "get" /\ last'.id = proc[p].id /\ last'.res = "ok"
            /\ last'.content = proc[p].content
       /\ (proc[p].pc = "g_cache" /\ CallFails(p)) => proc'[p].pc = "g_blob"
       /\ (proc[p].pc = "g_blob" /\ proc'[p] # proc[p] /\ faults' = faults
             /\ blob[proc[p].id] # NoBlob) =>
            \/ /\ proc'[p].pc = "g_warm"
               /\ proc'[p].content = decompressContent(blob[proc[p].id])
            \/ /\ proc'[p].pc = "idle" /\ last'.res = "ok"
               /\ last'.content = decompressContent(blob[proc[p].id])]_vars
\* the only request so far, a create, has returned success although its
\* cache.Set failed: record and blob are there, the cache entry is not
C36_Witness ==
  /\ last.op = "create" /\ last.res = "ok" /\ last.id # 0
  /\ opsLeft = MaxOpsF - 1 /\ faults < MaxFaults
  /\ meta[last.id].present /\ ~meta[last.id].burn /\ blob[last.id] # NoBlob
  /\ ~cache[last.id].present

HeldInSomeTier(s) == meta[s].present \/ blob[s] # NoBlob \/ cache[s].present
\* C38: every short_id that the metadata index, the blob store or the cache
\* holds is a key of the key collection with used = true; and the key that a
\* CreatePaste reserved stays used when the create fails and is handed out
\* to no other create
C38_StoredIdsAreUsedKeys ==
  /\ [](\A s \in KeySpace : HeldInSomeTier(s) => keys[s] = "used")
  /\ [][\A p \in Procs :
          (Returns(p, "create") /\ last'.res # "ok" /\ proc[p].id # 0) =>
            /\ keys'[proc[p].id] = "used"
            /\ handedOut'[proc[p].id] = 1]_vars
  /\ [][\A p \in Procs :
          (KeyCallReturns(p) /\ proc'[p].pc = "c_blob") =>
            /\ keys[proc'[p].id] = "unused"
            /\ handedOut[proc'[p].id] = 0]_vars
\* a create failed after reserving k, k is still used, and a later create
\* has stored its paste under another key
C38_Witness ==
  \E k, s \in KeySpace :
    /\ k # s
    /\ keys[k] = "used" /\ handedOut[k] = 1 /\ created[k] = 0
    /\ handedOut[s] = 1 /\ meta[s].present /\ blob[s] # NoBlob /\ cache[s].present
    /\ last.op = "create" /\ last.res = "ok" /\ last.id = s
    /\ \A p \in Procs : proc[p].pc = "idle"

\* every operation on short_id s has finished: no request handler, detached
\* purge or cleanup batch is working on s
Quiescent(s) ==
  /\ \A p \in Procs : proc[p].pc # "idle" => proc[p].id # s
  /\ \A q \in PurgeSlots : purges[q].pc # "free" => purges[q].id # s
  /\ reaper.pc # "idle" => s \notin Range(reaper.batch)
\* C39: once every operation on s has finished, the blob store holds a blob
\* for s only if the metadata index holds a record for s
C39_NoOrphanBlob ==
  \A s \in KeySpace : (Quiescent(s) /\ blob[s] # NoBlob) => meta[s].present

\* C40, part by part.  Once signalled while running, Start returns
C40_StartReturns ==
  (SelectReady /\ worker.start = "running") ~> (worker.start = "returned")
\* doneCh is closed once, by the return of Start
C40_DoneClosedOnce ==
  [](/\ worker.closes <= 1
     /\ (worker.doneCh = "closed") = (worker.start = "returned")
     /\ (worker.start = "returned") => worker.closes = 1)
\* a signalled worker waiting in its select begins no further cleanup cycle
C40_NoCycleAfterSignal == [](~worker.late)
\* Stop returns only after Start has exited
C40_StopAfterStart ==
  [](\A c \in Stoppers : worker.stop[c] = "returned" => worker.start = "returned")
\* a Stop call waiting for doneCh gets it
C40_StopReturns ==
  \A c \in Stoppers : (worker.stop[c] = "wait") ~> (worker.stop[c] = "returned")
\* no Stop call closes a closed channel
C40_NoDoubleClose ==
  [](\A c \in Stoppers : worker.stop[c] # "panicked")
\* C40: the cleanup worker is cancellable.  After its context is cancelled or
\* Stop is called while Start is running, Start eventually returns, closes
\* doneCh exactly once and begins no further cleanup cycle; Stop returns only
\* after Start has exited; and in no ordering of Start, cancellation and Stop
\* calls does a Stop call block for ever or close a closed channel
C40_WorkerCancellable ==
  /\ C40_StartReturns
  /\ C40_DoneClosedOnce
  /\ C40_NoCycleAfterSignal
  /\ C40_StopAfterStart
  /\ C40_StopReturns
  /\ C40_NoDoubleClose

TypeOK ==
  /\ now \in 0..MaxTime
  /\ keys \in [KeySpace -> {"absent", "unused", "used"}]
  /\ opsLeft \in 0..(MaxOps + MaxOpsF + MaxOpsLive + MaxOpsReap + MaxOpsKgs)

====
